---- MODULE Spec2Model ----
(***************************************************************************)
(* Model of repo/modules.go: importRepoRulesModules resolves the modules   *)
(* of a go.mod file into a sorted list of Repo descriptors.  One run of    *)
(* the function is a state machine; the outputs of "go list", of           *)
(* "go mod download" and the contents of go.sum are inputs, drawn record   *)
(* by record as the decoders and the line loop consume them.               *)
(***************************************************************************)
EXTENDS FiniteSets, Integers, Sequences, TLC

(* ---------------- bounds of the model ---------------- *)
\* number of records decoded from the "go list" stream
MaxList == 2
\* number of go.sum lines processed
MaxLedger == 2
\* number of records decoded from the "go mod download" stream
MaxDownload == 2

(* ---------------- input domains ---------------- *)
\* remote import paths
Paths == {"a", "b"}
\* replacement targets that are file paths: absolute, and relative ("./")
AbsPath == "/abs"
LocalPath == "./l"
ReplacePaths == Paths \cup {AbsPath, LocalPath}
Versions == {"v1", "v2"}
\* go.sum versions: module versions, and the "/go.mod" hash lines
GoModVersions == {"v1/go.mod"}
LedgerVersions == Versions \cup GoModVersions
Sums == {"h1", "h2"}

\* Replace *struct{Path, Version string}: <<>> is the nil pointer
NilReplace == <<>>
ReplaceValues == {NilReplace} \cup {<<r>> : r \in [Path : ReplacePaths, Version : Versions]}

\* records of the "go list -m -json all" stream, decoded into module (lines
\* 47-53, 62): a record may carry a Sum
ListRecords == [Path : Paths, Version : Versions, Sum : Sums \cup {""}, Main : BOOLEAN,
                Replace : ReplaceValues]
\* records of the "go mod download -json" stream
DownloadRecords == [Path : Paths, Sum : Sums \cup {""}]
\* go.sum lines after TrimSpace and Fields: the sequence of their fields
LedgerLines == {<<>>} \cup {<<p, v>> : p \in Paths, v \in Versions}
                 \cup {<<p, v, s>> : p \in Paths, v \in LedgerVersions, s \in Sums}
                 \cup {<<p, v, s, "x">> : p \in {"a"}, v \in {"v1"}, s \in {"h1"}}

\* directories: the one holding the original go.mod, and the temporary one
OrigDir == "orig"
TempDirName == "tmp"

(* ---------------- state ---------------- *)
VARIABLES
  pc,              \* position in importRepoRulesModules
  gomod,           \* contents of the go.mod file of each directory
  openMode,        \* how the original go.mod was opened: "" (not), "r", "w"
  tempDir,         \* the local tempDir ("" before copyGoModToTemp returns one)
  tempDirExists,   \* whether the temporary directory is on disk
  pathToModule,    \* the index: path -> module record
  fields,          \* the fields of the go.sum line processed last
  missingSumArgs,  \* the batch built for go mod download
  dl,              \* <<the download record decoded last>> (<<>> outside the loop)
  repos,           \* the returned list
  reposNil,        \* whether the returned list is nil
  err,             \* the returned error ("" is nil)
  log,             \* messages written with log.Printf
  listCalls,       \* invocations of goListModules, each with its directory
  downloadCalls,   \* invocations of goModDownload, each with its dir and args
  nList, nLedger, nDownload   \* records / lines consumed so far

vars == <<pc, gomod, openMode, tempDir, tempDirExists, pathToModule, fields,
          missingSumArgs, dl, repos, reposNil, err, log, listCalls,
          downloadCalls, nList, nLedger, nDownload>>

(* ---------------- helpers of the Go library ---------------- *)
\* filepath.IsAbs
IsAbs(p) == p = AbsPath
\* build.IsLocalImport
IsLocalImport(p) == p = LocalPath
\* strings.HasSuffix(version, "/go.mod")
HasGoModSuffix(v) == v \in GoModVersions
\* fmt.Sprintf("%s@%s", path, version)
Sprintf(p, v) == <<p, "@", v>>

\* m[k] = v on a Go map
MapPut(m, k, v) == [x \in (DOMAIN m) \cup {k} |-> IF x = k THEN v ELSE m[x]]
\* the orders in which "range" can visit the keys S of a map
RangeOrders(S) == {o \in [1..Cardinality(S) -> S] : \A x \in S : \E i \in DOMAIN o : o[i] = x}


(* ---------------- the pure steps of importRepoRulesModules ---------------- *)
\* lines 65-77: index one decoded list record
IndexModule(p2m, m) ==
  IF m.Main THEN p2m
  ELSE IF m.Replace # NilReplace
       THEN IF IsAbs(m.Replace[1].Path) \/ IsLocalImport(m.Replace[1].Path)
            THEN p2m
            ELSE MapPut(p2m, m.Replace[1].Path, m)
       ELSE MapPut(p2m, m.Path, m)

\* lines 68-73: the message logged for a file path replacement
IndexLog(m) ==
  IF ~m.Main /\ m.Replace # NilReplace
     /\ (IsAbs(m.Replace[1].Path) \/ IsLocalImport(m.Replace[1].Path))
  THEN {[kind |-> "file path replacement", path |-> m.Path]}
  ELSE {}

\* lines 85-96: apply one go.sum line, given as its fields
MergeLedgerLine(p2m, fs) ==
  IF Len(fs) # 3 THEN p2m
  ELSE IF HasGoModSuffix(fs[2]) THEN p2m
  ELSE IF fs[1] \in DOMAIN p2m THEN [p2m EXCEPT ![fs[1]].Sum = fs[3]]
  ELSE p2m

\* a test of mod.Sum that never finds it empty
SumMissing_Never(m) == FALSE

\* lines 102, 132: the test mod.Sum == ""
SumMissing(m) == m.Sum = ""

\* the argument built from the declared path and version even under a replace
MissingSumArg_Declared(m) == Sprintf(m.Path, m.Version)

\* lines 103-107: the argument of go mod download for one module
MissingSumArg(m) ==
  IF m.Replace # NilReplace
  THEN Sprintf(m.Replace[1].Path, m.Replace[1].Version)
  ELSE Sprintf(m.Path, m.Version)

\* a download record that also fills every module still without a sum
ApplyDownload_FillAll(p2m, d) ==
  [k \in DOMAIN p2m |->
     IF k = d.Path \/ p2m[k].Sum = "" THEN [p2m[k] EXCEPT !.Sum = d.Sum] ELSE p2m[k]]

\* lines 121-125: apply one download record
ApplyDownload(p2m, d) ==
  IF d.Path \notin DOMAIN p2m THEN p2m
  ELSE [p2m EXCEPT ![d.Path].Sum = d.Sum]

\* label.ImportPathToBazelRepoName, and the order of the names it returns
ImportPathToBazelRepoName(p) == IF p = "a" THEN "n_a" ELSE "n_b"
NameRank(n) == IF n = "n_a" THEN 1 ELSE 2
NameLess(x, y) == NameRank(x) < NameRank(y)

\* the Repo of a module whose Version is not replaced (line 144 missing)
MakeRepo_KeepVersion(m) ==
  [Name |-> ImportPathToBazelRepoName(m.Path),
   GoPrefix |-> m.Path,
   Version |-> m.Version,
   Sum |-> m.Sum,
   Replace |-> IF m.Replace # NilReplace THEN m.Replace[1].Path ELSE ""]

\* lines 136-145: the Repo of one module
MakeRepo(m) ==
  [Name |-> ImportPathToBazelRepoName(m.Path),
   GoPrefix |-> m.Path,
   Version |-> IF m.Replace # NilReplace THEN m.Replace[1].Version ELSE m.Version,
   Sum |-> m.Sum,
   Replace |-> IF m.Replace # NilReplace THEN m.Replace[1].Path ELSE ""]

\* line 148: what sort.Slice with less = Name < Name leaves
SortedByName(rs) ==
  \A i, j \in DOMAIN rs : i < j => ~NameLess(rs[j].Name, rs[i].Name)

\* the command run in the directory of the original go.mod
CmdDir_Orig(dir) == OrigDir

\* lines 157, 168: cmd.Dir = dir
CmdDir(dir) == dir

\* the go tool run in a directory may rewrite the go.mod found there
RunGo(fs, dir, rewrite) == IF rewrite THEN [fs EXCEPT ![dir] = "rewritten"] ELSE fs

\* line 43: the deferred os.RemoveAll(tempDir)
RemoveAll(fs) == [fs EXCEPT ![TempDirName] = "absent"]

(* ---------------- initial state ---------------- *)
Init ==
  /\ pc = "start"
  /\ gomod = [d \in {OrigDir, TempDirName} |-> IF d = OrigDir THEN "original" ELSE "absent"]
  /\ openMode = ""
  /\ tempDir = ""
  /\ tempDirExists = FALSE
  /\ pathToModule = <<>>
  /\ fields = <<>>
  /\ missingSumArgs = <<>>
  /\ dl = <<>>
  /\ repos = <<>>
  /\ reposNil = TRUE
  /\ err = ""
  /\ log = {}
  /\ listCalls = <<>>
  /\ downloadCalls = <<>>
  /\ nList = 0
  /\ nLedger = 0
  /\ nDownload = 0

\* "return nil, err" of importRepoRulesModules, before the defer of line 43
ReturnEarly(e) ==
  /\ pc' = "done"
  /\ err' = e
  /\ repos' = <<>>
  /\ reposNil' = TRUE

\* "return nil, err" after line 43: the deferred RemoveAll runs
ReturnError(e, fs) ==
  /\ pc' = "done"
  /\ err' = e
  /\ repos' = <<>>
  /\ reposNil' = TRUE
  /\ gomod' = RemoveAll(fs)
  /\ tempDirExists' = FALSE

(* ---------------- copyGoModToTemp, lines 39-43 and 174-203 ---------------- *)
\* os.Open fails (line 175): nothing was created
CopyOpenFails ==
  /\ pc = "start"
  /\ ReturnEarly("open")
  /\ UNCHANGED <<gomod, openMode, tempDir, tempDirExists, pathToModule, fields,
                 missingSumArgs, dl, log, listCalls, downloadCalls, nList, nLedger,
                 nDownload>>

\* ioutil.TempDir fails (line 181): nothing was created
CopyTempDirFails ==
  /\ pc = "start"
  /\ openMode' = "r"
  /\ ReturnEarly("tempdir")
  /\ UNCHANGED <<gomod, tempDir, tempDirExists, pathToModule, fields,
                 missingSumArgs, dl, log, listCalls, downloadCalls, nList, nLedger,
                 nDownload>>

\* os.Create fails (line 186): os.Remove deletes the empty directory
CopyCreateFails ==
  /\ pc = "start"
  /\ openMode' = "r"
  /\ ReturnEarly("create")
  /\ UNCHANGED <<gomod, tempDir, tempDirExists, pathToModule, fields,
                 missingSumArgs, dl, log, listCalls, downloadCalls, nList, nLedger,
                 nDownload>>

\* io.Copy fails (line 197): os.RemoveAll deletes the directory and the copy
CopyCopyFails ==
  /\ pc = "start"
  /\ openMode' = "r"
  /\ gomod' = RemoveAll([gomod EXCEPT ![TempDirName] = "partial"])
  /\ ReturnEarly("copy")
  /\ UNCHANGED <<tempDir, tempDirExists, pathToModule, fields,
                 missingSumArgs, dl, log, listCalls, downloadCalls, nList, nLedger,
                 nDownload>>

\* the deferred goModCopy.Close fails (lines 191-195): copyGoModToTemp returns
\* (tempDir, cerr), and the caller returns at line 41, before the defer of line 43
CopyCloseFails ==
  /\ pc = "start"
  /\ openMode' = "r"
  /\ gomod' = [gomod EXCEPT ![TempDirName] = gomod[OrigDir]]
  /\ tempDir' = TempDirName
  /\ tempDirExists' = TRUE
  /\ ReturnEarly("close")
  /\ UNCHANGED <<pathToModule, fields, missingSumArgs, dl, log, listCalls,
                 downloadCalls, nList, nLedger, nDownload>>

\* copyGoModToTemp succeeds; the RemoveAll of line 43 is deferred
CopyGoModToTemp ==
  /\ pc = "start"
  /\ openMode' = "r"
  /\ gomod' = [gomod EXCEPT ![TempDirName] = gomod[OrigDir]]
  /\ tempDir' = TempDirName
  /\ tempDirExists' = TRUE
  /\ pc' = "list"
  /\ UNCHANGED <<pathToModule, fields, missingSumArgs, dl, repos, reposNil, err,
                 log, listCalls, downloadCalls, nList, nLedger, nDownload>>

(* ---------------- go list, lines 54-78 ---------------- *)
\* goListModules(tempDir) returns the stream (lines 55, 59)
GoListModules ==
  /\ pc = "list"
  /\ \E rewrite \in BOOLEAN : gomod' = RunGo(gomod, CmdDir(tempDir), rewrite)
  /\ listCalls' = Append(listCalls, CmdDir(tempDir))
  /\ pc' = "decodeList"
  /\ UNCHANGED <<openMode, tempDir, tempDirExists, pathToModule, fields,
                 missingSumArgs, dl, repos, reposNil, err, log, downloadCalls,
                 nList, nLedger, nDownload>>

\* goListModules(tempDir) fails (lines 55-58)
GoListModulesFails ==
  /\ pc = "list"
  /\ listCalls' = Append(listCalls, CmdDir(tempDir))
  /\ \E rewrite \in BOOLEAN :
        ReturnError("list", RunGo(gomod, CmdDir(tempDir), rewrite))
  /\ UNCHANGED <<openMode, tempDir, pathToModule, fields, missingSumArgs, dl, log,
                 downloadCalls, nList, nLedger, nDownload>>

\* one iteration of the loop of lines 60-78
DecodeModule ==
  /\ pc = "decodeList"
  /\ nList < MaxList
  /\ \E m \in ListRecords :
        /\ pathToModule' = IndexModule(pathToModule, m)
        /\ log' = log \cup IndexLog(m)
  /\ nList' = nList + 1
  /\ UNCHANGED <<pc, gomod, openMode, tempDir, tempDirExists, fields,
                 missingSumArgs, dl, repos, reposNil, err, listCalls,
                 downloadCalls, nLedger, nDownload>>

\* dec.Decode fails on a record of the list stream (lines 62-64)
DecodeModuleFails ==
  /\ pc = "decodeList"
  /\ nList < MaxList
  /\ ReturnError("decode list", gomod)
  /\ UNCHANGED <<openMode, tempDir, pathToModule, fields, missingSumArgs, dl, log,
                 listCalls, downloadCalls, nList, nLedger, nDownload>>

\* dec.More() is false (line 60)
ListDone ==
  /\ pc = "decodeList"
  /\ pc' = "goSum"
  /\ UNCHANGED <<gomod, openMode, tempDir, tempDirExists, pathToModule, fields,
                 missingSumArgs, dl, repos, reposNil, err, log, listCalls,
                 downloadCalls, nList, nLedger, nDownload>>

(* ---------------- go.sum, lines 80-97 ---------------- *)
\* ioutil.ReadFile(goSumPath) returns the file (line 82)
ReadGoSum ==
  /\ pc = "goSum"
  /\ pc' = "merge"
  /\ UNCHANGED <<gomod, openMode, tempDir, tempDirExists, pathToModule, fields,
                 missingSumArgs, dl, repos, reposNil, err, log, listCalls,
                 downloadCalls, nList, nLedger, nDownload>>

\* ioutil.ReadFile fails and its error is dropped (line 82): data is empty,
\* bytes.Split gives one empty line, which has no fields
ReadGoSumFails ==
  /\ pc = "goSum"
  /\ fields' = <<>>
  /\ pathToModule' = MergeLedgerLine(pathToModule, <<>>)
  /\ pc' = "collect"
  /\ UNCHANGED <<gomod, openMode, tempDir, tempDirExists, missingSumArgs, dl,
                 repos, reposNil, err, log, listCalls, downloadCalls, nList,
                 nLedger, nDownload>>

\* one iteration of the loop of lines 84-97
MergeLine ==
  /\ pc = "merge"
  /\ nLedger < MaxLedger
  /\ \E fs \in LedgerLines :
        /\ fields' = fs
        /\ pathToModule' = MergeLedgerLine(pathToModule, fs)
  /\ nLedger' = nLedger + 1
  /\ UNCHANGED <<pc, gomod, openMode, tempDir, tempDirExists, missingSumArgs, dl,
                 repos, reposNil, err, log, listCalls, downloadCalls, nList,
                 nDownload>>

\* the lines are exhausted
MergeDone ==
  /\ pc = "merge"
  /\ fields' = <<>>
  /\ pc' = "collect"
  /\ UNCHANGED <<gomod, openMode, tempDir, tempDirExists, pathToModule,
                 missingSumArgs, dl, repos, reposNil, err, log, listCalls,
                 downloadCalls, nList, nLedger, nDownload>>

(* ---------------- go mod download, lines 99-127 ---------------- *)
\* the loop of lines 100-109 and the test of line 110; a map is ranged over in
\* any order
CollectMissingSums ==
  /\ pc = "collect"
  /\ \E o \in RangeOrders({k \in DOMAIN pathToModule : SumMissing(pathToModule[k])}) :
        missingSumArgs' = [i \in DOMAIN o |-> MissingSumArg(pathToModule[o[i]])]
  /\ pc' = IF Len(missingSumArgs') > 0 THEN "download" ELSE "build"
  /\ UNCHANGED <<gomod, openMode, tempDir, tempDirExists, pathToModule, fields, dl,
                 repos, reposNil, err, log, listCalls, downloadCalls, nList,
                 nLedger, nDownload>>

\* goModDownload(tempDir, missingSumArgs) returns the stream (lines 111, 115)
GoModDownload ==
  /\ pc = "download"
  /\ \E rewrite \in BOOLEAN : gomod' = RunGo(gomod, CmdDir(tempDir), rewrite)
  /\ downloadCalls' = Append(downloadCalls,
                             [dir |-> CmdDir(tempDir), args |-> missingSumArgs])
  /\ pc' = "decodeDownload"
  /\ UNCHANGED <<openMode, tempDir, tempDirExists, pathToModule, fields,
                 missingSumArgs, dl, repos, reposNil, err, log, listCalls, nList,
                 nLedger, nDownload>>

\* a failed goModDownload that is tried again
GoModDownloadFails_Retry ==
  /\ pc = "download"
  /\ downloadCalls' = Append(downloadCalls,
                             [dir |-> CmdDir(tempDir), args |-> missingSumArgs])
  /\ UNCHANGED <<pc, gomod, openMode, tempDir, tempDirExists, pathToModule, fields,
                 missingSumArgs, dl, repos, reposNil, err, log, listCalls, nList,
                 nLedger, nDownload>>

\* goModDownload fails (lines 111-114)
GoModDownloadFails ==
  /\ pc = "download"
  /\ downloadCalls' = Append(downloadCalls,
                             [dir |-> CmdDir(tempDir), args |-> missingSumArgs])
  /\ \E rewrite \in BOOLEAN :
        ReturnError("download", RunGo(gomod, CmdDir(tempDir), rewrite))
  /\ UNCHANGED <<openMode, tempDir, pathToModule, fields, missingSumArgs, dl, log,
                 listCalls, nList, nLedger, nDownload>>

\* one iteration of the loop of lines 116-126
DecodeDownload ==
  /\ pc = "decodeDownload"
  /\ nDownload < MaxDownload
  /\ \E d \in DownloadRecords :
        /\ dl' = <<d>>
        /\ pathToModule' = ApplyDownload(pathToModule, d)
  /\ nDownload' = nDownload + 1
  /\ UNCHANGED <<pc, gomod, openMode, tempDir, tempDirExists, fields,
                 missingSumArgs, repos, reposNil, err, log, listCalls,
                 downloadCalls, nList, nLedger>>

\* dec.Decode fails on a record of the download stream (lines 118-120)
DecodeDownloadFails ==
  /\ pc = "decodeDownload"
  /\ nDownload < MaxDownload
  /\ ReturnError("decode download", gomod)
  /\ UNCHANGED <<openMode, tempDir, pathToModule, fields, missingSumArgs, dl, log,
                 listCalls, downloadCalls, nList, nLedger, nDownload>>

\* dec.More() is false (line 116)
DownloadDone ==
  /\ pc = "decodeDownload"
  /\ dl' = <<>>
  /\ pc' = "build"
  /\ UNCHANGED <<gomod, openMode, tempDir, tempDirExists, pathToModule, fields,
                 missingSumArgs, repos, reposNil, err, log, listCalls,
                 downloadCalls, nList, nLedger, nDownload>>

(* ---------------- the result, lines 129-149 ---------------- *)
\* the loop of lines 131-147 ranges over the map in any order; sort.Slice is
\* not stable, so it may leave any order that is sorted by Name; the function
\* returns and the deferred RemoveAll runs
TranslateToRepos ==
  /\ pc = "build"
  /\ \E o \in RangeOrders({k \in DOMAIN pathToModule : ~SumMissing(pathToModule[k])}) :
        LET rs == [i \in DOMAIN o |-> MakeRepo(pathToModule[o[i]])]
        IN /\ SortedByName(rs)
           /\ repos' = rs
  /\ log' = log \cup {[kind |-> "could not determine sum", path |-> pathToModule[k].Path] :
                         k \in {x \in DOMAIN pathToModule : SumMissing(pathToModule[x])}}
  /\ reposNil' = FALSE
  /\ err' = ""
  /\ pc' = "done"
  /\ gomod' = RemoveAll(gomod)
  /\ tempDirExists' = FALSE
  /\ UNCHANGED <<openMode, tempDir, pathToModule, fields, missingSumArgs, dl,
                 listCalls, downloadCalls, nList, nLedger, nDownload>>

Next ==
  \/ CopyOpenFails \/ CopyTempDirFails \/ CopyCreateFails \/ CopyCopyFails
  \/ CopyCloseFails \/ CopyGoModToTemp
  \/ GoListModules \/ GoListModulesFails
  \/ DecodeModule \/ DecodeModuleFails \/ ListDone
  \/ ReadGoSum \/ ReadGoSumFails \/ MergeLine \/ MergeDone
  \/ CollectMissingSums
  \/ GoModDownload \/ GoModDownloadFails
  \/ DecodeDownload \/ DecodeDownloadFails \/ DownloadDone
  \/ TranslateToRepos

Spec == Init /\ [][Next]_vars

(* ======================= properties ======================= *)
Done == pc = "done"
Succeeded == pc = "done" /\ err = ""
\* the keys of the modules with / without a sum
WithSum == {k \in DOMAIN pathToModule : pathToModule[k].Sum # ""}
WithoutSum == {k \in DOMAIN pathToModule : pathToModule[k].Sum = ""}
\* the version-qualified identifier of a module: the replacement's path and
\* version if it has one, else its own
Identifier(m) ==
  IF m.Replace = NilReplace THEN <<m.Path, "@", m.Version>>
  ELSE <<m.Replace[1].Path, "@", m.Replace[1].Version>>

\* C1: once a run has returned, on the success path and on every failure
\* path, the temporary directory made by copyGoModToTemp no longer exists.
C1_TempDirRemoved == Done => (~tempDirExists /\ gomod[TempDirName] = "absent")

\* C2: every descriptor of a successful run has a non-empty Sum; a module
\* whose Sum is still empty is absent from the list, and the run that reaches
\* the translation with such a module still succeeds.
C2_EmittedHaveSum ==
  /\ [](Succeeded =>
         /\ \A i \in DOMAIN repos : repos[i].Sum # ""
         /\ Len(repos) = Cardinality(WithSum))
  /\ [][pc = "build" => (pc' = "done" /\ err' = "" /\ ~reposNil')]_vars
C2_Witness == Succeeded /\ WithoutSum # {} /\ WithSum # {}

\* C3: go mod download is invoked at most once, only after the list call and
\* the go.sum merge, only with a non-empty batch; the batch holds exactly one
\* identifier for each indexed module without a sum (the replacement's path
\* and version if it has one) and none for a module that has a sum.
C3_BatchExact(args) ==
  /\ Len(args) = Cardinality(WithoutSum)
  /\ \A k \in WithoutSum :
       Cardinality({i \in DOMAIN args : args[i] = Identifier(pathToModule[k])}) = 1
  /\ \A k \in WithSum : \A i \in DOMAIN args : args[i] # Identifier(pathToModule[k])
C3_DownloadOnceExactBatch ==
  /\ Len(downloadCalls) <= 1
  /\ Len(downloadCalls) = 1 =>
       /\ pc \in {"decodeDownload", "build", "done"}
       /\ Len(listCalls) = 1
       /\ Len(downloadCalls[1].args) > 0
       /\ downloadCalls[1].args = missingSumArgs
  /\ pc \in {"build", "done"} /\ err = "" /\ Len(downloadCalls) = 0 => missingSumArgs = <<>>
  /\ (pc = "download" \/ (pc = "decodeDownload" /\ nDownload = 0)) =>
       C3_BatchExact(missingSumArgs)
C3_Witness ==
  /\ pc = "decodeDownload" /\ nDownload = 0
  /\ WithSum # {}
  /\ \E k \in WithoutSum : pathToModule[k].Replace # NilReplace

\* C4: a go.sum line sets the Sum of a module only if the line's path and the
\* line's version are both those of the module.
C4_LedgerMatchesPathAndVersion ==
  [][pc = "merge" =>
       \A k \in DOMAIN pathToModule :
         pathToModule'[k].Sum # pathToModule[k].Sum =>
           /\ Len(fields') = 3
           /\ <<fields'[1], "@", fields'[2]>> = Identifier(pathToModule[k])]_vars

\* C5: the list of a successful run is strictly ascending by Name, so no two
\* descriptors share a name.
C5_StrictlyAscending ==
  Succeeded =>
    \A i \in DOMAIN repos : i < Len(repos) => NameLess(repos[i].Name, repos[i + 1].Name)

\* C6: a module with a replacement P, V and a non-empty Sum is emitted with
\* Version V and Replace P; a module without one with its own Version and an
\* empty Replace; and nothing else is emitted.
C6_Emitted(m) ==
  [Name |-> ImportPathToBazelRepoName(m.Path), GoPrefix |-> m.Path, Sum |-> m.Sum,
   Version |-> IF m.Replace = NilReplace THEN m.Version ELSE m.Replace[1].Version,
   Replace |-> IF m.Replace = NilReplace THEN "" ELSE m.Replace[1].Path]
C6_ReplaceSubstituted ==
  Succeeded =>
    /\ \A k \in WithSum : \E i \in DOMAIN repos : repos[i] = C6_Emitted(pathToModule[k])
    /\ \A i \in DOMAIN repos : \E k \in WithSum : repos[i] = C6_Emitted(pathToModule[k])
C6_Witness ==
  /\ Succeeded
  /\ \E k \in WithSum :
       /\ pathToModule[k].Replace # NilReplace
       /\ pathToModule[k].Replace[1].Version # pathToModule[k].Version
  /\ \E k \in WithSum : pathToModule[k].Replace = NilReplace

\* C7: a failed list call, list decode, download call or download decode
\* returns an error and a nil list; neither command is run more than once; the
\* only errors a run returns are those of copyGoModToTemp and these four, so
\* an unreadable go.sum is none.
C7_FatalErrors == {"list", "decode list", "download", "decode download"}
C7_FatalUnwinds ==
  /\ Len(listCalls) <= 1
  /\ Len(downloadCalls) <= 1
  /\ err # "" => Done /\ reposNil /\ repos = <<>>
  /\ err \in {"", "open", "tempdir", "create", "copy", "close"} \cup C7_FatalErrors
  /\ err \in C7_FatalErrors => Len(listCalls) = 1
  /\ err \in {"download", "decode download"} => Len(downloadCalls) = 1
C7_Witness ==
  /\ Done /\ err = "decode download"
  /\ WithSum # {} /\ nDownload > 0

\* C8: a record that replaces, in the index, a record of the other kind (a
\* replaced module under its target path, a plain module under its own path)
\* is reported in the log.
C8_CollisionReported ==
  [][pc = "decodeList" =>
       \A k \in DOMAIN pathToModule :
         (pathToModule[k].Replace = NilReplace) # (pathToModule'[k].Replace = NilReplace) =>
           \E e \in log' : e.kind = "path collision"]_vars

\* C9: the original go.mod is never changed and only opened for reading, and
\* both commands run in the temporary directory.
C9_OriginalUntouched ==
  /\ gomod[OrigDir] = "original"
  /\ openMode \in {"", "r"}
  /\ \A i \in DOMAIN listCalls : listCalls[i] = TempDirName
  /\ \A i \in DOMAIN downloadCalls : downloadCalls[i].dir = TempDirName
C9_Witness ==
  /\ pc = "decodeDownload"
  /\ gomod[TempDirName] = "rewritten"

\* C10 (as claimed): applying the download output leaves the Sum of every
\* module that was not in the batch (it had a Sum before recovery, from go.sum
\* or from its list record) as it was.
C10_InBatch(k) == \E i \in DOMAIN missingSumArgs : missingSumArgs[i][1] = k
C10_OnlyBatchChanged ==
  [][pc = "decodeDownload" =>
       \A k \in DOMAIN pathToModule :
         ~C10_InBatch(k) => pathToModule'[k].Sum = pathToModule[k].Sum]_vars

\* C10 (amended): applying a download record changes only the module indexed
\* under the record's path, whose Sum becomes the record's Sum; every other
\* module, and the set of indexed paths, stay as they were.
C10_OnlyNamedChanged ==
  [][pc = "decodeDownload" =>
       /\ DOMAIN pathToModule' = DOMAIN pathToModule
       /\ \A k \in DOMAIN pathToModule :
            IF dl' # <<>> /\ dl'[1].Path = k
            THEN pathToModule'[k] = [pathToModule[k] EXCEPT !.Sum = dl'[1].Sum]
            ELSE pathToModule'[k] = pathToModule[k]]_vars
C10_Witness ==
  /\ pc = "decodeDownload" /\ dl # <<>>
  /\ dl[1].Path \in DOMAIN pathToModule
  /\ C10_InBatch(dl[1].Path)
  /\ \E k \in WithSum : ~C10_InBatch(k) /\ k # dl[1].Path

====
